---- MODULE Spec2Model ----
(***************************************************************************)
(* dynexec (src/cmd/dynexec/C/dynexec.c): the launcher that finds its own  *)
(* directory, picks a dynamic linker in <dir>/shared/lib, and execve()s    *)
(* <dir>/shared/bin/<target> through it.                                   *)
(*                                                                         *)
(* C strings are sequences of one-character strings.  The file system the  *)
(* launcher runs in is part of the state (exeDir, layoutAt, libEntries)   *)
(* and does not change during a run; the contents of                       *)
(* shared/lib are drawn when opendir opens it, no earlier step can see     *)
(* them.  Allocation (malloc, strdup) is taken to succeed.                 *)
(***************************************************************************)
EXTENDS Integers, Sequences, FiniteSets, TLC

VARIABLES
    exeDir,         \* canonical directory that holds the launcher file
    layoutAt,       \* "self": shared/ is in exeDir; "parent": in its parent
    libEntries,     \* entries of the real <root>/shared/lib ([name, kind]),
                    \* known from the moment the directory is opened
    pc,             \* position in main / match_linker_name
    argv0,          \* argv as passed to main
    argv,           \* argv as main sees it (after argv++)
    argc,           \* argc as main sees it (after argc--)
    dynexe, dynexe_dir, lower_dir, shared_bin, shared_lib,
    bin_name, bin, path, linker_name, linker,
    exec_args,      \* the VLA exec_args[argc + 4]
    oob,            \* indices written outside exec_args
    rest,           \* entries readdir has not returned yet
    seen,           \* entries readdir returned and the loop rejected
    dirOpen,        \* dp is an open DIR*
    regexCompiled,  \* regex holds a compiled pattern
    heap,           \* live malloc/strdup/realpath buffers, by variable name
    stderr,         \* diagnostics written, in order
    exitCode,       \* -1 while running or replaced, else the exit status
    execCount       \* number of execve calls made

fsVars   == <<exeDir, layoutAt, libEntries>>
argVars  == <<argv0, argv, argc, bin_name, bin>>
locVars  == <<dynexe, dynexe_dir, lower_dir>>
layVars  == <<shared_bin, shared_lib>>
scanVars == <<path, linker_name, rest, seen, dirOpen, regexCompiled>>
execVars == <<linker, exec_args, oob, execCount>>
outVars  == <<stderr, exitCode>>
vars == <<fsVars, argVars, locVars, layVars, scanVars, execVars, outVars, pc, heap>>

----------------------------------------------------------------------------
(* Bounds of the model *)

\* largest argc passed to main
MaxArgc == 3
\* largest number of entries in shared/lib
MaxEntries == 2
\* length of one path component of a deep directory, separator included
CompLen == 200

(* Program constants *)
LowerDirSize == 512
PathSize == 1024
LinkerNameSize == 256
EXIT_FAILURE == 1

----------------------------------------------------------------------------
(* String literals of the program *)

DYNEXE_NAME     == <<"d","y","n","e","x","e">>
S_bin           == <<"b","i","n">>
S_dotdot_slash  == <<"/",".",".","/">>
S_shared_bin    == <<"/","s","h","a","r","e","d","/","b","i","n">>
S_shared_lib    == <<"/","s","h","a","r","e","d","/","l","i","b">>
S_library_path  == <<"-","-","l","i","b","r","a","r","y","-","p","a","t","h">>
S_slash         == <<"/">>

Nil   == <<>>
Null  == <<"NULL">>
Unset == <<"UNSET">>

\* snprintf(buf, size, ...): at most size - 1 bytes of the formatted text
Snprintf(size, s) == IF Len(s) < size THEN s ELSE SubSeq(s, 1, size - 1)

\* strrchr(path, '/') as an index, 0 when there is none
LastSlash(p) ==
    LET S == {i \in 1..Len(p) : p[i] = "/"}
    IN IF S = {} THEN 0 ELSE CHOOSE i \in S : \A j \in S : j <= i

\* custom_basename that returns its argument, the '/' search left out
CustomBasename_whole(p) == p

\* custom_basename: what follows the last '/', or the whole path
CustomBasename(p) ==
    LET k == LastSlash(p) IN IF k = 0 THEN p ELSE SubSeq(p, k + 1, Len(p))

\* dirname(3) on a path without trailing slashes
Dirname(p) ==
    LET k == LastSlash(p)
    IN IF k = 0 THEN <<".">>
       ELSE IF k = 1 THEN S_slash
       ELSE SubSeq(p, 1, k - 1)

\* a pattern that asks for ".so." alone
RegexMatch_so(name) ==
    \E j \in 1..(Len(name) - 3) : SubSeq(name, j, j + 3) = <<".","s","o",".">>

\* the regular expression "^ld-.*-.*\.so\..*" of regcomp, applied by regexec:
\* "ld-" at the start, a later '-', and ".so." somewhere after that
RegexMatch(name) ==
    /\ Len(name) >= 3
    /\ SubSeq(name, 1, 3) = <<"l","d","-">>
    /\ \E i \in 4..Len(name) :
          /\ name[i] = "-"
          /\ \E j \in (i + 1)..(Len(name) - 3) :
                SubSeq(name, j, j + 3) = <<".","s","o",".">>

----------------------------------------------------------------------------
(* The file system the launcher runs in *)

\* a canonical absolute directory path of length n made of components of 'a'
Deep(n) == [i \in 1..n |-> IF i % CompLen = 1 THEN "/" ELSE "a"]

\* directories the launcher may be installed in: short ones, with and
\* without a final "bin", and deep ones whose derived paths reach the sizes
\* of lower_dir[512] and path[1024]
ExeDirs ==
    { <<"/","o">>,
      <<"/","o","/","b","i","n">>,
      Deep(LowerDirSize - 4) \o S_slash \o S_bin,
      Deep(PathSize - 15) }

Join(d, c) == IF d = S_slash THEN d \o c ELSE d \o S_slash \o c

ExePath == Join(exeDir, DYNEXE_NAME)
RealRoot == IF layoutAt = "self" THEN exeDir ELSE Dirname(exeDir)
RealLibDir == Join(RealRoot, SubSeq(S_shared_lib, 2, Len(S_shared_lib)))
RealBinDir == Join(RealRoot, SubSeq(S_shared_bin, 2, Len(S_shared_bin)))
\* a regular file named "bi" beside the launcher's directory
StrayPath == Join(Dirname(exeDir), <<"b","i">>)

\* c is a proper ancestor directory of the canonical path p
IsAncestor(c, p) ==
    \/ c = S_slash /\ Len(p) > 1
    \/ /\ Len(c) < Len(p)
       /\ p[Len(c) + 1] = "/"
       /\ SubSeq(p, 1, Len(c)) = c

\* what the canonical path c names: "dir", "reg", "lnk_reg" (a symlink to a
\* regular file), "lnk_dangling" (a symlink to nothing) or "none"
NodeKind(c) ==
    IF c = S_slash \/ IsAncestor(c, ExePath) \/ IsAncestor(c, RealLibDir)
       \/ c = RealLibDir \/ c = RealBinDir
    THEN "dir"
    ELSE IF c = ExePath THEN "reg"
    ELSE IF c = StrayPath THEN "reg"
    ELSE IF \E e \in libEntries : c = Join(RealLibDir, e.name)
    THEN (CHOOSE e \in libEntries : c = Join(RealLibDir, e.name)).kind
    ELSE "none"

\* the components of p from index `from` on, split at '/'
RECURSIVE Split(_, _)
Split(p, from) ==
    LET S == {j \in from..Len(p) : p[j] = "/"}
    IN IF S = {} THEN <<SubSeq(p, from, Len(p))>>
       ELSE LET j == CHOOSE x \in S : \A y \in S : x <= y
            IN <<SubSeq(p, from, j - 1)>> \o Split(p, j + 1)

\* path resolution by the kernel: every component but the last is looked up
\* in a directory; "" and "." stay, ".." goes up; Nil when it fails
RECURSIVE Walk(_, _)
Walk(cur, comps) ==
    IF comps = <<>> THEN cur
    ELSE IF NodeKind(cur) # "dir" THEN Nil
    ELSE LET c == Head(comps)
             nxt == Join(cur, c)
         IN IF c = <<>> \/ c = <<".">> THEN Walk(cur, Tail(comps))
            ELSE IF c = <<".", ".">> THEN Walk(Dirname(cur), Tail(comps))
            ELSE IF NodeKind(nxt) = "none" THEN Nil
            ELSE Walk(nxt, Tail(comps))

Resolve(p) ==
    IF p = <<>> \/ p[1] # "/" THEN Nil ELSE Walk(S_slash, Split(p, 2))

\* stat(2), which follows symlinks: "dir", "reg" or "none" (stat fails)
Stat(p) ==
    LET c == Resolve(p)
        k == IF c = Nil THEN "none" ELSE NodeKind(c)
    IN IF k = "lnk_reg" THEN "reg"
       ELSE IF k = "lnk_dangling" THEN "none"
       ELSE k

\* is_file: stat succeeds and S_ISREG
IsFile(p) == Stat(p) = "reg"

\* names a directory entry of shared/lib may have
N_ld_a_b   == <<"l","d","-","a","-","b",".","s","o",".","1">>
N_ld_empty == <<"l","d","-","-",".","s","o",".">>
N_ld_dot   == <<"l","d","-","a",".","b","-","c",".","s","o",".","1">>
N_ld       == <<"l","d">>
N_libc     == <<"l","i","b","c",".","s","o",".","6">>

E(n, k) == [name |-> n, kind |-> k]

EntryPool ==
    { E(N_ld_a_b, "reg"), E(N_ld_a_b, "dir"), E(N_ld_a_b, "lnk_reg"),
      E(N_ld_a_b, "lnk_dangling"),
      E(N_ld_empty, "reg"), E(N_ld_dot, "reg"),
      E(N_ld, "reg"), E(N_libc, "reg") }

\* contents of a directory: at most MaxEntries entries, no name twice.
\* "." and ".." are left out: readdir returns them, the pattern never
\* matches their names, so the loop rejects them whatever stat says.
Listings ==
    { L \in SUBSET EntryPool :
        /\ Cardinality(L) <= MaxEntries
        /\ \A e, f \in L : e.name = f.name => e = f }

\* argument vectors main may be started with
A_t      == <<"t">>
A_b_dyn  == <<"b","/","d","y","n","e","x","e">>
A_up_x   == <<".",".","/","x">>
A_flag   == <<"-","f">>

Argv0s  == { A_b_dyn, A_t }
ArgPool == { A_up_x, A_flag }

RECURSIVE SeqsUpTo(_, _)
SeqsUpTo(S, n) ==
    IF n = 0 THEN { <<>> }
    ELSE LET R == SeqsUpTo(S, n - 1)
         IN R \cup { Append(r, x) : r \in {q \in R : Len(q) = n - 1}, x \in S }

Argvs == { <<a>> \o r : a \in Argv0s, r \in SeqsUpTo(ArgPool, MaxArgc - 1) }

----------------------------------------------------------------------------
(* The launcher *)

Init ==
    /\ exeDir \in ExeDirs
    /\ layoutAt \in {"self", "parent"}
    /\ libEntries = {}
    /\ pc = "main"
    /\ argv0 = Nil /\ argv = Nil /\ argc = 0
    /\ dynexe = Nil /\ dynexe_dir = Nil /\ lower_dir = Nil
    /\ shared_bin = Nil /\ shared_lib = Nil
    /\ bin_name = Nil /\ bin = Nil
    /\ path = Nil /\ linker_name = Null /\ linker = Nil
    /\ exec_args = <<>> /\ oob = {}
    /\ rest = {} /\ seen = {}
    /\ dirOpen = FALSE /\ regexCompiled = FALSE
    /\ heap = {}
    /\ stderr = <<>>
    /\ exitCode = -1
    /\ execCount = 0

\* a diagnostic on stderr followed by exit(EXIT_FAILURE)
Die(msg, arg) ==
    /\ stderr' = Append(stderr, [msg |-> msg, arg |-> arg])
    /\ exitCode' = EXIT_FAILURE
    /\ pc' = "exited"

\* realpath_alloc("/proc/self/exe") returns the launcher's canonical path
RealpathExe ==
    /\ pc = "main"
    /\ dynexe' = ExePath
    /\ heap' = heap \cup {"dynexe"}
    /\ pc' = "dirname"
    /\ UNCHANGED <<fsVars, argVars, dynexe_dir, lower_dir, layVars, scanVars,
                   execVars, outVars>>

\* realpath fails: perror("realpath"); exit(EXIT_FAILURE)
RealpathExeFail ==
    /\ pc = "main"
    /\ Die("realpath", Nil)
    /\ UNCHANGED <<fsVars, argVars, locVars, layVars, scanVars, execVars, heap>>

\* dynexe_dir = dirname(strdup(dynexe)); lower_dir = "<dynexe_dir>/../"
Locate ==
    /\ pc = "dirname"
    /\ dynexe_dir' = Dirname(dynexe)
    /\ heap' = heap \cup {"dynexe_dir"}
    /\ lower_dir' = Snprintf(LowerDirSize, Dirname(dynexe) \o S_dotdot_slash)
    /\ pc' = "bincheck"
    /\ UNCHANGED <<fsVars, argVars, dynexe, layVars, scanVars, execVars, outVars>>

\* the test "we are in the bin directory"
InBin == CustomBasename(dynexe_dir) = S_bin /\ IsFile(lower_dir)

\* the test holds: free(dynexe_dir); dynexe_dir = realpath_alloc(lower_dir)
BinParent ==
    /\ pc = "bincheck"
    /\ InBin
    /\ IF Resolve(lower_dir) = Nil
       THEN /\ Die("realpath", Nil)
            /\ heap' = heap \ {"dynexe_dir"}
            /\ UNCHANGED dynexe_dir
       ELSE /\ dynexe_dir' = Resolve(lower_dir)
            /\ pc' = "layout"
            /\ UNCHANGED <<heap, outVars>>
    /\ UNCHANGED <<fsVars, argVars, dynexe, lower_dir, layVars, scanVars, execVars>>

\* the test fails: dynexe_dir stays the launcher's directory
BinSkip ==
    /\ pc = "bincheck"
    /\ ~InBin
    /\ pc' = "layout"
    /\ UNCHANGED <<fsVars, argVars, locVars, layVars, scanVars, execVars,
                   outVars, heap>>

\* shared_bin and shared_lib, each in a buffer of strlen(dynexe_dir) + 12
Layout ==
    /\ pc = "layout"
    /\ shared_bin' = Snprintf(Len(dynexe_dir) + 12, dynexe_dir \o S_shared_bin)
    /\ shared_lib' = Snprintf(Len(dynexe_dir) + 12, dynexe_dir \o S_shared_lib)
    /\ heap' = heap \cup {"shared_bin", "shared_lib"}
    /\ pc' = "dispatch"
    /\ UNCHANGED <<fsVars, argVars, locVars, scanVars, execVars, outVars>>

\* the dispatch test with argv[0] compared as given
ByArgument_strcmp(a) == a[1] = DYNEXE_NAME /\ Len(a) > 1

\* the dispatch test on argv
ByArgument(a) == CustomBasename(a[1]) = DYNEXE_NAME /\ Len(a) > 1

\* bin_name, the argv shift, and bin = "<shared_bin>/<bin_name>"
Dispatch ==
    /\ pc = "dispatch"
    /\ \E a \in Argvs :
          LET name == IF ByArgument(a) THEN a[2] ELSE CustomBasename(a[1])
          IN /\ argv0' = a
             /\ argv' = IF ByArgument(a) THEN Tail(a) ELSE a
             /\ argc' = IF ByArgument(a) THEN Len(a) - 1 ELSE Len(a)
             /\ bin_name' = name
             /\ bin' = Snprintf(Len(shared_bin) + Len(name) + 2,
                                shared_bin \o S_slash \o name)
    /\ heap' = heap \cup {"bin"}
    /\ pc' = "regcomp"
    /\ UNCHANGED <<fsVars, locVars, layVars, scanVars, execVars, outVars>>

\* match_linker_name: regcomp succeeds
Regcomp ==
    /\ pc = "regcomp"
    /\ regexCompiled' = TRUE
    /\ pc' = "opendir"
    /\ UNCHANGED <<fsVars, argVars, locVars, layVars, path, linker_name, rest,
                   seen, dirOpen, execVars, outVars, heap>>

\* regcomp fails: "Could not compile regex"; exit(EXIT_FAILURE)
RegcompFail ==
    /\ pc = "regcomp"
    /\ Die("Could not compile regex", Nil)
    /\ UNCHANGED <<fsVars, argVars, locVars, layVars, scanVars, execVars, heap>>

\* opendir(shared_lib) succeeds on a directory
Opendir ==
    /\ pc = "opendir"
    /\ Stat(shared_lib) = "dir"
    /\ dirOpen' = TRUE
    /\ \E L \in Listings :
          /\ libEntries' = IF Resolve(shared_lib) = RealLibDir THEN L ELSE {}
          /\ rest' = libEntries'
    /\ seen' = {}
    /\ pc' = "readdir"
    /\ UNCHANGED <<exeDir, layoutAt, argVars, locVars, layVars, path, linker_name,
                   regexCompiled, execVars, outVars, heap>>

\* opendir fails: perror("opendir"); exit(EXIT_FAILURE)
OpendirFail ==
    /\ pc = "opendir"
    /\ Stat(shared_lib) # "dir"
    /\ Die("opendir", Nil)
    /\ UNCHANGED <<fsVars, argVars, locVars, layVars, scanVars, execVars, heap>>

\* the path built for the entry named n, in path[1024]
EntryPath(n) == Snprintf(PathSize, shared_lib \o S_slash \o n)

\* the loop's test on the entry e
Accepts(e) == IsFile(EntryPath(e.name)) /\ RegexMatch(e.name)

\* readdir returns an entry the loop accepts: copy its name into
\* linker_name[256], closedir, regfree, return linker_name
ReaddirMatch ==
    /\ pc = "readdir"
    /\ \E e \in rest :
          /\ Accepts(e)
          /\ path' = EntryPath(e.name)
          /\ linker_name' = Snprintf(LinkerNameSize, e.name)
          /\ rest' = rest \ {e}
    /\ dirOpen' = FALSE
    /\ regexCompiled' = FALSE
    /\ pc' = "found"
    /\ UNCHANGED <<fsVars, argVars, locVars, layVars, seen, execVars, outVars,
                   heap>>

\* readdir returns an entry the loop rejects
ReaddirSkip ==
    /\ pc = "readdir"
    /\ \E e \in rest :
          /\ ~Accepts(e)
          /\ path' = EntryPath(e.name)
          /\ rest' = rest \ {e}
          /\ seen' = seen \cup {e}
    /\ UNCHANGED <<fsVars, argVars, locVars, layVars, linker_name, dirOpen,
                   regexCompiled, execVars, outVars, heap, pc>>

\* readdir returns NULL: closedir, regfree, return NULL
ReaddirEnd ==
    /\ pc = "readdir"
    /\ rest = {}
    /\ dirOpen' = FALSE
    /\ regexCompiled' = FALSE
    /\ pc' = "nolinker"
    /\ UNCHANGED <<fsVars, argVars, locVars, layVars, path, linker_name, rest,
                   seen, execVars, outVars, heap>>

\* the NULL test left out: main goes on with linker_name = NULL
NoLinker_fallthrough ==
    /\ pc = "nolinker"
    /\ pc' = "found"
    /\ UNCHANGED <<fsVars, argVars, locVars, layVars, scanVars, execVars,
                   outVars, heap>>

\* !linker_name: "No valid linker found in <shared_lib>"; exit(EXIT_FAILURE)
NoLinker ==
    /\ pc = "nolinker"
    /\ Die("No valid linker found in", shared_lib)
    /\ UNCHANGED <<fsVars, argVars, locVars, layVars, scanVars, execVars, heap>>

\* an array one slot short: no room for the sentinel
ExecArgsLen_short(n) == n + 3

\* the number of slots of the array exec_args
ExecArgsLen(n) == n + 4

\* the stores into exec_args, in program order
ExecStores(l) ==
    << [i |-> 0, v |-> l],
       [i |-> 1, v |-> S_library_path],
       [i |-> 2, v |-> shared_lib],
       [i |-> 3, v |-> bin] >>
    \o [k \in 1..(argc - 1) |-> [i |-> 3 + k, v |-> argv[k + 1]]]
    \o << [i |-> argc + 3, v |-> Null] >>

\* linker = "<shared_lib>/<linker_name>" and the argument vector
Prepare ==
    /\ pc = "found"
    /\ LET l == Snprintf(Len(shared_lib) + Len(linker_name) + 2,
                         shared_lib \o S_slash \o linker_name)
           W == ExecStores(l)
           slots == 0..(ExecArgsLen(argc) - 1)
       IN /\ linker' = l
          /\ exec_args' =
                [i \in slots |->
                    IF \E k \in 1..Len(W) : W[k].i = i
                    THEN W[CHOOSE k \in 1..Len(W) :
                              /\ W[k].i = i
                              /\ \A m \in 1..Len(W) : W[m].i = i => m <= k].v
                    ELSE Unset]
          /\ oob' = {W[k].i : k \in 1..Len(W)} \ slots
    /\ heap' = heap \cup {"linker"}
    /\ pc' = "execve"
    /\ UNCHANGED <<fsVars, argVars, locVars, layVars, scanVars, execCount,
                   outVars>>

\* execve(linker, exec_args, environ) replaces the process image
ExecveOk ==
    /\ pc = "execve"
    /\ Stat(linker) = "reg"
    /\ execCount' = execCount + 1
    /\ pc' = "replaced"
    /\ UNCHANGED <<fsVars, argVars, locVars, layVars, scanVars, linker,
                   exec_args, oob, outVars, heap>>

\* execve returns -1: "Failed to execute <linker>: ..."; exit(EXIT_FAILURE).
\* execve returns nothing else, so the free() calls and the return 0 that
\* follow it in main are never reached and have no action.
ExecveFail ==
    /\ pc = "execve"
    /\ execCount' = execCount + 1
    /\ Die("Failed to execute", linker)
    /\ UNCHANGED <<fsVars, argVars, locVars, layVars, scanVars, linker,
                   exec_args, oob, heap>>

Next ==
    \/ RealpathExe \/ RealpathExeFail
    \/ Locate
    \/ BinParent \/ BinSkip
    \/ Layout
    \/ Dispatch
    \/ Regcomp \/ RegcompFail
    \/ Opendir \/ OpendirFail
    \/ ReaddirMatch \/ ReaddirSkip \/ ReaddirEnd
    \/ NoLinker
    \/ Prepare
    \/ ExecveOk \/ ExecveFail

Spec == Init /\ [][Next]_vars

----------------------------------------------------------------------------
(* Vocabulary of the properties *)

\* the first n characters of s, or s when it is shorter
FirstChars(s, n) == [i \in 1..(IF Len(s) < n THEN Len(s) ELSE n) |-> s[i]]

NoSlash(s) == \A i \in 1..Len(s) : s[i] # "/"

\* the last path component of p: the suffix after the last '/', stated
\* without reference to how the program computes it
LastComponentOf(p) ==
    CHOOSE s \in {SubSeq(p, k, Len(p)) : k \in 1..(Len(p) + 1)} :
        /\ NoSlash(s)
        /\ Len(s) = Len(p) \/ p[Len(p) - Len(s)] = "/"

\* argument mode: invoked as "dynexe" with at least one more argument
ArgumentMode == LastComponentOf(argv0[1]) = DYNEXE_NAME /\ Len(argv0) > 1

\* the arguments the target is to receive, from the original argv
Forwarded ==
    IF ArgumentMode THEN SubSeq(argv0, 3, Len(argv0))
    ELSE SubSeq(argv0, 2, Len(argv0))

Dispatched == argv0 # Nil
LaidOut    == shared_lib # Nil
Selected   == linker_name # Null
ArgsBuilt  == pc \in {"execve", "replaced"} \/ execCount > 0

\* the directory shared/lib was opened and enumerated
Enumerated ==
    \/ pc \in {"readdir", "found", "nolinker", "execve", "replaced"}
    \/ /\ pc = "exited"
       /\ stderr[Len(stderr)].msg \in {"No valid linker found in", "Failed to execute"}

RegularKind(e) == e.kind \in {"reg", "lnk_reg"}

\* "ld-", a later '-', then ".so.": each run between them of any length and
\* of any characters
LoosePattern(n) ==
    /\ Len(n) >= 3 /\ n[1] = "l" /\ n[2] = "d" /\ n[3] = "-"
    /\ \E i \in 4..Len(n), j \in 5..Len(n) :
          /\ i < j /\ j + 3 <= Len(n)
          /\ n[i] = "-"
          /\ n[j] = "." /\ n[j + 1] = "s" /\ n[j + 2] = "o" /\ n[j + 3] = "."

\* "ld-", a run of one or more characters other than '.' and '/', a '-',
\* another such run, ".so.", then any trailing run
StrictPattern(n) ==
    /\ Len(n) >= 3 /\ n[1] = "l" /\ n[2] = "d" /\ n[3] = "-"
    /\ \E i \in 5..Len(n), j \in 7..Len(n) :
          /\ i + 1 < j /\ j + 3 <= Len(n)
          /\ n[i] = "-"
          /\ \A k \in (4..(i - 1)) \cup ((i + 1)..(j - 1)) : n[k] \notin {".", "/"}
          /\ n[j] = "." /\ n[j + 1] = "s" /\ n[j + 2] = "o" /\ n[j + 3] = "."

\* an interpreter file of shared/lib: a regular file whose name the
\* program's pattern matches
InterpreterFile(e) == RegularKind(e) /\ LoosePattern(e.name)

\* the directory the specification intends as InstallRoot
IntendedRoot ==
    IF CustomBasename(exeDir) = S_bin /\ Stat(Dirname(exeDir)) = "dir"
    THEN Dirname(exeDir)
    ELSE exeDir

Rank(p) ==
    CASE p = "main" -> 0
      [] p = "dirname" -> 1
      [] p = "bincheck" -> 2
      [] p = "layout" -> 3
      [] p = "dispatch" -> 4
      [] p = "regcomp" -> 5
      [] p = "opendir" -> 6
      [] p = "readdir" -> 7
      [] p \in {"found", "nolinker"} -> 8
      [] p = "execve" -> 9
      [] p \in {"replaced", "exited"} -> 10

----------------------------------------------------------------------------
(* Properties *)

\* C1 (as claimed): when the launcher's directory is named "bin" and its
\* parent exists, binDir and libDir are built on the parent directory;
\* otherwise they are built on the launcher's directory.
C1_ParentOfBinIsRoot ==
    LaidOut =>
        /\ shared_bin = IntendedRoot \o S_shared_bin
        /\ shared_lib = IntendedRoot \o S_shared_lib

\* C2: in argument mode the target is binDir/argv[1] and argv[2..] is
\* forwarded in order; otherwise the target is binDir/<last component of
\* argv[0]> and argv[1..] is forwarded in order.
C2_DispatchResolver ==
    Dispatched =>
        /\ ArgumentMode => bin = shared_bin \o S_slash \o argv0[2]
        /\ ~ArgumentMode =>
              bin = shared_bin \o S_slash \o LastComponentOf(argv0[1])
        /\ SubSeq(argv, 2, argc) = Forwarded
        /\ ArgsBuilt =>
              [k \in 1..(argc - 1) |-> exec_args[3 + k]] = Forwarded

\* C2 witness: argument mode with an argument left to forward, executed
C2_Witness ==
    /\ pc = "replaced"
    /\ Dispatched /\ ArgumentMode
    /\ Len(argv0) = 3
    /\ exec_args[4] = argv0[3]

\* C3: the vector handed to execve is [libDir/<interpreter>,
\* "--library-path", libDir, targetPath, forwarded arguments in order] and
\* one sentinel; argc + 3 slots precede the sentinel, all of them written,
\* and nothing is written outside the array.
C3_ExecArgvLayout ==
    ArgsBuilt =>
        /\ argc = Len(Forwarded) + 1
        /\ DOMAIN exec_args = 0..(argc + 3)
        /\ oob = {}
        /\ exec_args[0] = shared_lib \o S_slash \o linker_name
        /\ exec_args[0] = linker
        /\ exec_args[1] = S_library_path
        /\ exec_args[2] = shared_lib
        /\ exec_args[3] = bin
        /\ \A k \in 1..Len(Forwarded) : exec_args[3 + k] = Forwarded[k]
        /\ \A i \in 0..(argc + 2) : exec_args[i] \notin {Null, Unset}
        /\ exec_args[argc + 3] = Null

\* C3 witness: a vector with two forwarded arguments was handed to execve
C3_Witness ==
    /\ pc = "replaced"
    /\ argc = 3
    /\ exec_args[4] # exec_args[5]
    /\ exec_args[6] = Null

\* C4 (as claimed): when shared/lib is enumerated and holds no interpreter
\* file, no interpreter is selected, execve is never attempted, and the
\* launcher exits non-zero with a diagnostic naming libDir.
C4_NoInterpreterIsFatal ==
    (Enumerated /\ \A e \in libEntries : ~InterpreterFile(e)) =>
        /\ pc \notin {"found", "execve", "replaced"}
        /\ execCount = 0
        /\ pc = "exited" =>
              /\ exitCode # 0
              /\ stderr[Len(stderr)] =
                    [msg |-> "No valid linker found in", arg |-> shared_lib]

\* C5 (as claimed): the name returned is that of the first entry, in
\* enumeration order, that is an interpreter file; NULL is returned only
\* when there is none.
C5_FirstMatchWins ==
    /\ Selected =>
          /\ \E e \in libEntries : e.name = linker_name /\ InterpreterFile(e)
          /\ \A f \in seen : ~InterpreterFile(f)
    /\ pc = "nolinker" => \A e \in libEntries : ~InterpreterFile(e)

\* C6 (as claimed): the selected name is that of a regular file of libDir
\* and matches the pattern with non-empty tokens free of '.' and '/'.
C6_StrictPatternSelected ==
    Selected =>
        /\ \E e \in libEntries : e.name = linker_name /\ RegularKind(e)
        /\ StrictPattern(linker_name)

\* C6 (amended): the selected name is that of an entry of libDir, matches
\* "ld-", any run, "-", any run, ".so.", any run (runs may be empty and may
\* hold '.'), and the path tested for it, the first 1023 characters of
\* libDir/name, is a regular file.
C6_LoosePatternSelected ==
    Selected =>
        /\ \E e \in libEntries : e.name = linker_name
        /\ LoosePattern(linker_name)
        /\ Stat(FirstChars(shared_lib \o S_slash \o linker_name, PathSize - 1))
              = "reg"

\* C6 witness: a name with two empty tokens was selected
C6_Witness == Selected /\ linker_name = N_ld_empty /\ pc = "execve"

\* C7 (as claimed): when the launcher has exited, the directory handle, the
\* compiled pattern and every path buffer have been released; no directory
\* handle is open when execve is attempted.
C7_ReleasedOnExit ==
    /\ pc = "exited" => heap = {} /\ ~dirOpen /\ ~regexCompiled
    /\ ArgsBuilt => ~dirOpen

\* C8: steps only go forward through self-location, layout, dispatch,
\* search and replacement; a failure writes one diagnostic and exits
\* non-zero with nothing after it; execve is attempted at most once and
\* only with a selected interpreter; the launcher never exits with 0.
C8_Step ==
    /\ pc \notin {"exited", "replaced"}
    /\ Rank(pc') >= Rank(pc)
    /\ Rank(pc') = Rank(pc) => pc = "readdir" /\ pc' = "readdir"
    /\ pc' = "exited" =>
          /\ Len(stderr') = Len(stderr) + 1
          /\ exitCode' > 0
    /\ pc' # "exited" => stderr' = stderr /\ exitCode' = -1
    /\ execCount' # execCount =>
          /\ execCount = 0 /\ execCount' = 1
          /\ pc = "execve"
          /\ Selected
          /\ linker = shared_lib \o S_slash \o linker_name

C8_LinearAndTerminal ==
    /\ [][C8_Step]_vars
    /\ [](exitCode # 0 /\ execCount <= 1)
    /\ [](pc = "exited" <=> exitCode > 0)

\* C8 witness: the run went through every step and ended at a failed execve
C8_Witness ==
    /\ pc = "exited"
    /\ execCount = 1
    /\ stderr = << [msg |-> "Failed to execute", arg |-> linker] >>

\* C9 (as claimed): binName holds no '/' in either dispatch mode, and
\* targetPath is binDir/binName.
C9_BinNameIsBasename ==
    Dispatched =>
        /\ NoSlash(bin_name)
        /\ bin = shared_bin \o S_slash \o bin_name

\* C9 (amended): taken from the invocation name, binName is its last
\* component and holds no '/'; taken from the first argument, binName is
\* that argument as given, '/' included; targetPath is binDir/binName.
C9_BinNameByMode ==
    Dispatched =>
        /\ ~ArgumentMode =>
              bin_name = LastComponentOf(argv0[1]) /\ NoSlash(bin_name)
        /\ ArgumentMode => bin_name = argv0[2]
        /\ bin = shared_bin \o S_slash \o bin_name

\* C9 witness: a first argument with '/' became binName and was executed
C9_Witness ==
    /\ pc = "replaced"
    /\ ArgumentMode
    /\ bin_name = A_up_x
    /\ exec_args[3] = shared_bin \o S_slash \o A_up_x

\* C10 (as claimed): every path built is the whole concatenation of its
\* parts, the regular-file test is applied to the entry enumerated, and an
\* interpreter present in libDir is found.
C10_NoTruncation ==
    /\ lower_dir # Nil => lower_dir = Dirname(dynexe) \o S_dotdot_slash
    /\ LaidOut => /\ shared_bin = dynexe_dir \o S_shared_bin
                  /\ shared_lib = dynexe_dir \o S_shared_lib
    /\ Dispatched => bin = shared_bin \o S_slash \o bin_name
    /\ linker # Nil => linker = shared_lib \o S_slash \o linker_name
    /\ path # Nil => \E e \in libEntries : path = shared_lib \o S_slash \o e.name
    /\ pc = "nolinker" => \A e \in libEntries : ~InterpreterFile(e)

====
